---- MODULE Spec2Model ----
(***************************************************************************)
(* Refresh-decision loop of anserem, a dynamic-DNS update agent.           *)
(*                                                                         *)
(* The repository holds two scheduler variants:                            *)
(*   "scan"   - cmd/anserem/app.go: interface scan, start/refresh,         *)
(*              providers dynv6 and DuckDNS;                               *)
(*   "lookup" - main.go: external client-ip lookup, start/onTick,          *)
(*              provider dynv6 only.                                       *)
(* Both keep the package-level refresh state (lastAddr, lastRefresh).      *)
(*                                                                         *)
(* Strings are sequences of tokens, so that String(), Sprintf and          *)
(* HasPrefix are concatenation and prefix comparison.  Time is the reading *)
(* of the process clock in abstract units; Go's time.Now() carries a       *)
(* monotonic reading, so the clock never runs backwards.                   *)
(***************************************************************************)
EXTENDS Integers, Sequences, FiniteSets, TLC

\* ------------------------------------------------------------------ bounds
MaxTime == 3        \* the clock stops advancing here
MaxForced == 2      \* largest configured forced-refresh-interval
MaxRefresh == 1     \* largest configured refresh-interval
MaxAddrs == 2       \* most interface addresses net.InterfaceAddrs returns
MaxDelay == 1       \* longest time between two clock readings of one tick

Min(a, b) == IF a <= b THEN a ELSE b

\* the clock readings a tick can take after it read t
After(t) == t .. Min(t + MaxDelay, MaxTime)

\* --------------------------------------------------------------- addresses
\* ip.String() of the addresses the host or the lookup service may report
IPs == { <<"2a02:", ":1">>, <<"fd00:", ":1">>, <<"fe80:", ":1">> }

\* net.IP.IsPrivate: fc00::/7
IsPrivate(ip) == ip[1] \in {"fc00:", "fd00:"}

\* strings.HasPrefix
HasPrefix(s, p) == Len(p) <= Len(s) /\ SubSeq(s, 1, Len(p)) = p

\* (*net.IPNet).String(): the ip followed by the "/<prefix length>" token
AddrString(a) == a.ip \o <<a.plen>>

\* the nil net.Addr interface value lastAddr starts with
NilAddr == <<"<nil>">>

\* one entry of net.InterfaceAddrs(): the address and whether reverse DNS
\* (net.LookupAddr) resolves it
InterfaceEntries == [ip : IPs, plen : {"/64"}, resolvable : BOOLEAN]

RECURSIVE SeqsUpTo(_, _)
SeqsUpTo(S, n) ==
    IF n = 0 THEN { <<>> }
    ELSE LET shorter == SeqsUpTo(S, n - 1)
         IN  shorter \cup { Append(s, x) : s \in { t \in shorter : Len(t) = n - 1 }, x \in S }

InterfaceLists == SeqsUpTo(InterfaceEntries, MaxAddrs)

\* the scan of publicIp from position i on
RECURSIVE publicIpFrom(_, _, _)
publicIpFrom(addrs, i, ipPrefix) ==
    IF i > Len(addrs)
    THEN [err |-> "nopublic", addr |-> <<>>, ip |-> <<>>]
    ELSE LET a == addrs[i]
         IN  IF ~a.resolvable
             THEN publicIpFrom(addrs, i + 1, ipPrefix)
             ELSE IF ~IsPrivate(a.ip) /\ HasPrefix(a.ip, ipPrefix)
                  THEN [err |-> "", addr |-> AddrString(a), ip |-> a.ip]
                  ELSE publicIpFrom(addrs, i + 1, ipPrefix)

\* Options.publicIp: enum is what net.InterfaceAddrs returned
publicIp(enum, ipPrefix) ==
    IF enum.err
    THEN [err |-> "enumeration", addr |-> <<>>, ip |-> <<>>]
    ELSE publicIpFrom(enum.addrs, 1, ipPrefix)

Prefixes == { <<>>, <<"2a02:">> }

\* every result publicIp can produce, per configured prefix
PublicIpResults ==
    [p \in Prefixes |->
        { publicIp([err |-> TRUE, addrs |-> <<>>], p) }
        \cup { publicIp([err |-> FALSE, addrs |-> l], p) : l \in InterfaceLists }]

\* replies of the client-ip service: request failure, malformed body, or a
\* JSON body whose ipString is an address (or absent, hence empty)
BdcReplies ==
    { [err |-> "network", ipString |-> <<>>], [err |-> "decode", ipString |-> <<>>] }
    \cup { [err |-> "", ipString |-> s] : s \in { <<>>, <<"2a02:", ":1">> } }

\* Options.publicAddress
publicAddress(reply) ==
    IF reply.err # ""
    THEN [err |-> reply.err, addr |-> <<>>, ip |-> <<>>]
    ELSE [err |-> "", addr |-> reply.ipString \o <<"/128">>, ip |-> reply.ipString]

PublicAddressResults == { publicAddress(r) : r \in BdcReplies }

\* ----------------------------------------------------------- configuration
Hosts == {"", "host"}
Tokens == {"", "token"}
\* the Options a command line can produce, per variant
ScanOptions ==
    [ipPrefix : Prefixes, refreshInterval : 0 .. MaxRefresh,
     forcedRefreshInterval : 0 .. MaxForced,
     duckHost : Hosts, duckToken : Tokens, dynv6Host : Hosts, dynv6Token : Tokens]

LookupOptions ==
    [ipPrefix : { <<>> }, refreshInterval : 0 .. MaxRefresh,
     forcedRefreshInterval : 0 .. MaxForced,
     duckHost : {""}, duckToken : {""}, dynv6Host : Hosts, dynv6Token : Tokens]

\* mutant: host or token is enough
hasDynv6Either(o) == o.dynv6Host # "" \/ o.dynv6Token # ""

hasDynv6(o) == o.dynv6Host # "" /\ o.dynv6Token # ""

hasDuckDns(o) == o.duckHost # "" /\ o.duckToken # ""

\* --------------------------------------------------------------- providers
\* how one http.Get and the read of its body end
HttpOutcomes == {"ok", "geterr", "readerr"}

\* the outcome of each request a tick may issue; a provider that is not
\* configured issues none, and main.go has no DuckDNS
NetOutcomes(v, o) ==
    [dynv6 : IF v = "lookup" \/ (o.dynv6Host # "" /\ o.dynv6Token # "")
             THEN HttpOutcomes ELSE {"ok"},
     duckClear : IF o.duckHost # "" /\ o.duckToken # "" THEN {"ok", "geterr"} ELSE {"ok"},
     duck : IF o.duckHost # "" /\ o.duckToken # "" THEN HttpOutcomes ELSE {"ok"}]

Request(provider, host, token, ipv6, clear, result) ==
    [provider |-> provider, host |-> host, token |-> token,
     ipv6 |-> ipv6, clear |-> clear, result |-> result]

\* mutant: a failed request is sent once more
refreshDynv6Retries(o, addr, net) ==
    LET req == Request("dynv6", o.dynv6Host, o.dynv6Token, addr, FALSE, net.dynv6)
    IN  IF net.dynv6 = "geterr" THEN << req, req >> ELSE << req >>

\* Options.refreshDynv6: the requests it issues
refreshDynv6(o, addr, net) ==
    << Request("dynv6", o.dynv6Host, o.dynv6Token, addr, FALSE, net.dynv6) >>

\* Options.refreshDuckDNS: a clear request, then, if that went through, the update
refreshDuckDNS(o, ip, net) ==
    LET clear == Request("duckdns", o.duckHost, o.duckToken, <<>>, TRUE, net.duckClear)
    IN  IF net.duckClear = "geterr"
        THEN << clear >>
        ELSE << clear, Request("duckdns", o.duckHost, o.duckToken, ip, FALSE, net.duck) >>

\* main.go refresh(addr): the request it issues
mainRefresh(o, addr, net) ==
    << Request("dynv6", o.dynv6Host, o.dynv6Token, addr, FALSE, net.dynv6) >>

\* --------------------------------------------------------------- the ticks
\* what a tick leaves behind: the refresh state, the requests it issued and
\* how it ended ("error", "unchanged", "publish" or "panic")
TickResult(addr, time, calls, outcome) ==
    [lastAddr |-> addr, lastRefresh |-> time, calls |-> calls, outcome |-> outcome]

\* mutant: the operands of Sub are swapped
forceSwapped(o, st, now) == st.lastRefresh - now >= o.forcedRefreshInterval

\* app.go:191
force(o, st, now) == now - st.lastRefresh >= o.forcedRefreshInterval

\* mutant: a failed dynv6 request ends the publish
refreshProvidersAbortOnFailure(o, disc, net) ==
    IF hasDynv6(o) /\ net.dynv6 # "ok"
    THEN refreshDynv6(o, disc.addr, net)
    ELSE (IF hasDynv6(o) THEN refreshDynv6(o, disc.addr, net) ELSE <<>>)
         \o (IF hasDuckDns(o) THEN refreshDuckDNS(o, disc.ip, net) ELSE <<>>)

\* app.go:199-205
refreshProviders(o, disc, net) ==
    (IF hasDynv6(o) THEN refreshDynv6(o, disc.addr, net) ELSE <<>>)
    \o (IF hasDuckDns(o) THEN refreshDuckDNS(o, disc.ip, net) ELSE <<>>)

\* mutant: the state is stored only when every request went through
refreshPublishIfDelivered(o, st, disc, t2, net) ==
    LET reqs == refreshProviders(o, disc, net)
    IN  IF \A i \in 1 .. Len(reqs) : reqs[i].result = "ok"
        THEN TickResult(disc.addr, t2, reqs, "publish")
        ELSE TickResult(st.lastAddr, st.lastRefresh, reqs, "publish")

\* app.go:196-205
refreshPublish(o, st, disc, t2, net) ==
    TickResult(disc.addr, t2, refreshProviders(o, disc, net), "publish")

\* mutant: lastAddr.String() is compared with ip.String()
refreshDecideComparesIp(o, st, disc, t1, t2, net) ==
    IF force(o, st, t1)
    THEN refreshPublish(o, st, disc, t2, net)
    ELSE IF st.lastAddr = NilAddr
         THEN TickResult(st.lastAddr, st.lastRefresh, <<>>, "panic")
         ELSE IF st.lastAddr = disc.ip
              THEN TickResult(st.lastAddr, st.lastRefresh, <<>>, "unchanged")
              ELSE refreshPublish(o, st, disc, t2, net)

\* app.go:190-205; lastAddr.String() on the nil interface panics
refreshDecide(o, st, disc, t1, t2, net) ==
    IF force(o, st, t1)
    THEN refreshPublish(o, st, disc, t2, net)
    ELSE IF st.lastAddr = NilAddr
         THEN TickResult(st.lastAddr, st.lastRefresh, <<>>, "panic")
         ELSE IF st.lastAddr = disc.addr
              THEN TickResult(st.lastAddr, st.lastRefresh, <<>>, "unchanged")
              ELSE refreshPublish(o, st, disc, t2, net)

\* mutant: a failed discovery still stamps lastRefresh
refreshStampsOnError(o, st, disc, t1, t2, net) ==
    IF disc.err # ""
    THEN TickResult(st.lastAddr, t1, <<>>, "error")
    ELSE refreshDecide(o, st, disc, t1, t2, net)

\* mutant: the error branch lacks its return
refreshNoReturn(o, st, disc, t1, t2, net) == refreshDecide(o, st, disc, t1, t2, net)

\* Options.refresh (app.go): disc is what publicIp returned, t1 and t2 the
\* two readings of time.Now()
refresh(o, st, disc, t1, t2, net) ==
    IF disc.err # ""
    THEN TickResult(st.lastAddr, st.lastRefresh, <<>>, "error")
    ELSE refreshDecide(o, st, disc, t1, t2, net)

\* main.go:169
forced(o, st, now) == now - st.lastRefresh > o.forcedRefreshInterval

\* main.go:170
changed(st, addr) == st.lastAddr # addr

\* mutant: the time since the last refresh is stored instead of the time
onTickPublishStoresElapsed(o, st, disc, t2, net) ==
    TickResult(disc.addr, t2 - st.lastRefresh, mainRefresh(o, disc.addr, net), "publish")

\* main.go:194-197; the clock is read after refresh(addr) returned
onTickPublish(o, st, disc, t2, net) ==
    TickResult(disc.addr, t2, mainRefresh(o, disc.addr, net), "publish")

\* mutant: a failed discovery still stamps lastRefresh
onTickStampsOnError(o, st, disc, t1, t2, net) ==
    IF disc.err # ""
    THEN TickResult(st.lastAddr, t2, <<>>, "error")
    ELSE IF ~forced(o, st, t1) /\ ~changed(st, disc.addr)
         THEN TickResult(st.lastAddr, st.lastRefresh, <<>>, "unchanged")
         ELSE onTickPublish(o, st, disc, t2, net)

\* Options.onTick (main.go): disc is what publicAddress returned, t1 the
\* clock when forced is computed, t2 the clock after refresh(addr)
onTick(o, st, disc, t1, t2, net) ==
    IF disc.err # ""
    THEN TickResult(st.lastAddr, st.lastRefresh, <<>>, "error")
    ELSE IF ~forced(o, st, t1) /\ ~changed(st, disc.addr)
         THEN TickResult(st.lastAddr, st.lastRefresh, <<>>, "unchanged")
         ELSE onTickPublish(o, st, disc, t2, net)

\* ------------------------------------------------------------------- state
VARIABLES
    variant,      \* "scan" (cmd/anserem/app.go) or "lookup" (main.go)
    opts,         \* the Options filled in from the command line
    lastAddr,     \* package variable lastAddr
    lastRefresh,  \* package variable lastRefresh
    clock,        \* the process clock, time since the epoch
    pc,           \* where start is: "start", "initial", "select", "returned", "panicked",
                  \* and "intick" where the call of the handler is a step of its own
    startErr,     \* the error start returned, "" while it has returned none
    nextFire,     \* when the ticker sends next
    tickPending,  \* a tick sits in the ticker's channel (capacity 1)
    cancelled,    \* ctx.Done() is closed
    tick,         \* log of the most recent tick: its inputs and how it ended
    calls,        \* the provider requests the most recent tick issued
    sent,         \* the address the most recent address-carrying request was for
    running,      \* the calls of the tick handler that have not returned yet
    ifaces,       \* what net.InterfaceAddrs returned to the discovery under study
    exitCode      \* the exit status of the process, NotExited while it runs

vars == <<variant, opts, lastAddr, lastRefresh, clock, pc, startErr, nextFire,
          tickPending, cancelled, tick, calls, sent, running, ifaces, exitCode>>

NotExited == 0 - 1

NoInterfaces == [err |-> FALSE, addrs |-> <<>>]

\* the value lastAddr is declared with
InitialAddr(v) == IF v = "scan" THEN NilAddr ELSE <<>>

\* the value lastRefresh is declared with: time.UnixMilli(0) in app.go,
\* time.Now() at package initialisation in main.go
InitialRefresh(v, now) == IF v = "scan" THEN 0 ELSE now

NoTick ==
    [outcome |-> "none", err |-> "", addr |-> <<>>, ip |-> <<>>, now |-> 0,
     changed |-> FALSE]

Init ==
    /\ variant \in {"scan", "lookup"}
    /\ opts \in (IF variant = "scan" THEN ScanOptions ELSE LookupOptions)
    /\ clock = 0
    /\ lastAddr = InitialAddr(variant)
    /\ lastRefresh = InitialRefresh(variant, clock)
    /\ pc = "start"
    /\ startErr = ""
    /\ nextFire = 0
    /\ tickPending = FALSE
    /\ cancelled = FALSE
    /\ tick = NoTick
    /\ calls = <<>>
    /\ sent = InitialAddr(variant)
    /\ running = 0
    /\ ifaces = NoInterfaces
    /\ exitCode = NotExited

Alive == pc \in {"start", "initial", "select", "intick"}

\* ------------------------------------------------------------- environment
\* time passes
Advance ==
    /\ Alive
    /\ clock < MaxTime
    /\ clock' = clock + 1
    /\ UNCHANGED <<variant, opts, lastAddr, lastRefresh, pc, startErr, nextFire,
                   tickPending, cancelled, tick, calls, sent, running, ifaces, exitCode>>

\* the ticker's period elapsed: it sends on its channel, dropping the tick
\* when one is still waiting, and schedules the next period after now
TimerFire ==
    /\ pc \in {"initial", "select", "intick"}
    /\ clock >= nextFire
    /\ tickPending' = TRUE
    /\ nextFire' = nextFire
                   + opts.refreshInterval * (1 + ((clock - nextFire) \div opts.refreshInterval))
    /\ UNCHANGED <<variant, opts, lastAddr, lastRefresh, clock, pc, startErr,
                   cancelled, tick, calls, sent, running, ifaces, exitCode>>

\* the external shutdown signal
Cancel ==
    /\ Alive
    /\ ~cancelled
    /\ cancelled' = TRUE
    /\ UNCHANGED <<variant, opts, lastAddr, lastRefresh, clock, pc, startErr,
                   nextFire, tickPending, tick, calls, sent, running, ifaces, exitCode>>

\* ------------------------------------------------------------------- start
\* app.go start up to the initial refresh
StartScan ==
    /\ variant = "scan"
    /\ pc = "start"
    /\ IF ~hasDuckDns(opts) /\ ~hasDynv6(opts)
       THEN pc' = "returned" /\ startErr' = "config" /\ UNCHANGED nextFire
       ELSE IF opts.refreshInterval <= 0
            THEN pc' = "panicked" /\ UNCHANGED <<startErr, nextFire>>
            ELSE /\ pc' = "initial"
                 /\ nextFire' = clock + opts.refreshInterval
                 /\ UNCHANGED startErr
    /\ UNCHANGED <<variant, opts, lastAddr, lastRefresh, clock, tickPending,
                   cancelled, tick, calls, sent, running, ifaces, exitCode>>

\* main.go start up to the select loop
StartLookup ==
    /\ variant = "lookup"
    /\ pc = "start"
    /\ IF opts.refreshInterval <= 0
       THEN pc' = "panicked" /\ UNCHANGED nextFire
       ELSE pc' = "select" /\ nextFire' = clock + opts.refreshInterval
    /\ UNCHANGED <<variant, opts, lastAddr, lastRefresh, clock, startErr,
                   tickPending, cancelled, tick, calls, sent, running, ifaces, exitCode>>

\* case <-ctx.Done(): return ctx.Err()
Return ==
    /\ pc = "select"
    /\ cancelled
    /\ pc' = "returned"
    /\ startErr' = "ctx"
    /\ UNCHANGED <<variant, opts, lastAddr, lastRefresh, clock, nextFire,
                   tickPending, cancelled, tick, calls, sent, running, ifaces, exitCode>>

\* ------------------------------------------------------------------- ticks
State == [lastAddr |-> lastAddr, lastRefresh |-> lastRefresh]

\* the address of disc went out in one of the requests
Carried(disc, reqs) ==
    \E i \in 1 .. Len(reqs) : ~reqs[i].clear /\ reqs[i].ipv6 \in {disc.addr, disc.ip}

\* the effect of one run of the tick handler: disc is what discovery
\* returned, t1 the clock when the handler decides, t2 its later reading,
\* r the handler's result; the tick log notes, as main.go:173-184 does,
\* whether the discovered address differed from lastAddr
Ran(disc, t1, t2, r) ==
    /\ lastAddr' = r.lastAddr
    /\ lastRefresh' = r.lastRefresh
    /\ calls' = r.calls
    /\ tick' = [outcome |-> r.outcome, err |-> disc.err, addr |-> disc.addr,
                ip |-> disc.ip, now |-> t1,
                changed |-> (disc.err = "" /\ disc.addr # lastAddr)]
    /\ sent' = IF Carried(disc, r.calls) THEN disc.addr ELSE sent
    /\ clock' = t2
    /\ pc' = IF r.outcome = "panic" THEN "panicked" ELSE "select"

\* one run of Options.refresh (app.go)
RunRefresh ==
    \E disc \in PublicIpResults[opts.ipPrefix], net \in NetOutcomes(variant, opts) :
    \E t2 \in After(clock) :
        Ran(disc, clock, t2, refresh(opts, State, disc, clock, t2, net))

\* one run of Options.onTick (main.go)
RunOnTick ==
    \E disc \in PublicAddressResults, net \in NetOutcomes(variant, opts) :
    \E t2 \in After(clock) :
        Ran(disc, clock, t2, onTick(opts, State, disc, clock, t2, net))

\* app.go:140, the initial refresh
InitialTick ==
    /\ variant = "scan"
    /\ pc = "initial"
    /\ RunRefresh
    /\ UNCHANGED <<variant, opts, startErr, nextFire, tickPending, cancelled,
                   running, ifaces, exitCode>>

\* app.go:145-146
RefreshTick ==
    /\ variant = "scan"
    /\ pc = "select"
    /\ tickPending
    /\ tickPending' = FALSE
    /\ RunRefresh
    /\ UNCHANGED <<variant, opts, startErr, nextFire, cancelled, running, ifaces, exitCode>>

\* main.go:152-153
OnTick ==
    /\ variant = "lookup"
    /\ pc = "select"
    /\ tickPending
    /\ tickPending' = FALSE
    /\ RunOnTick
    /\ UNCHANGED <<variant, opts, startErr, nextFire, cancelled, running, ifaces, exitCode>>

\* main: what the process exits with once Run has returned err; the error
\* is printed and main returns
mainExit(err) == 0

\* the process ends: main returns, or the Go runtime ends it after a panic
\* with status 2
Exit ==
    /\ pc \in {"returned", "panicked"}
    /\ exitCode = NotExited
    /\ exitCode' = IF pc = "panicked" THEN 2 ELSE mainExit(startErr)
    /\ UNCHANGED <<variant, opts, lastAddr, lastRefresh, clock, pc, startErr, nextFire,
                   tickPending, cancelled, tick, calls, sent, running, ifaces>>

Next ==
    \/ Advance
    \/ TimerFire
    \/ Cancel
    \/ StartScan
    \/ StartLookup
    \/ Return
    \/ InitialTick
    \/ RefreshTick
    \/ OnTick
    \/ Exit

Spec == Init /\ [][Next]_vars

\* ---- the loop with the call of the handler as a step of its own ----

\* mutant: the handler is started with go and the loop goes on at once
duringRefreshAsync(after) == after

\* where the loop is while a call of the handler it made has not returned:
\* o.refresh() and o.onTick() are plain calls, the loop goes on to the point
\* after them only when they return
duringRefresh(after) == "intick"

\* app.go:140, the loop enters the initial refresh
BeginInitial ==
    /\ variant = "scan"
    /\ pc = "initial"
    /\ pc' = duringRefresh("select")
    /\ running' = running + 1
    /\ UNCHANGED <<variant, opts, lastAddr, lastRefresh, clock, startErr, nextFire,
                   tickPending, cancelled, tick, calls, sent, ifaces, exitCode>>

\* app.go:145-146 and main.go:152-153, the select takes the tick and the
\* loop enters the handler
BeginTick ==
    /\ pc = "select"
    /\ tickPending
    /\ tickPending' = FALSE
    /\ pc' = duringRefresh("select")
    /\ running' = running + 1
    /\ UNCHANGED <<variant, opts, lastAddr, lastRefresh, clock, startErr, nextFire,
                   cancelled, tick, calls, sent, ifaces, exitCode>>

\* a call of the handler does its work and returns (or panics); the time
\* that passed since BeginTick is the time it waited for its discovery
EndTick ==
    /\ running > 0
    /\ running' = running - 1
    /\ IF variant = "scan" THEN RunRefresh ELSE RunOnTick
    /\ UNCHANGED <<variant, opts, startErr, nextFire, tickPending, cancelled,
                   ifaces, exitCode>>

\* one provider (dynv6) and no prefix, in both variants
InitSteps ==
    /\ Init
    /\ opts.ipPrefix = <<>>
    /\ opts.duckHost = "" /\ opts.duckToken = ""

NextSteps ==
    \/ Advance
    \/ TimerFire
    \/ Cancel
    \/ StartScan
    \/ StartLookup
    \/ Return
    \/ BeginInitial
    \/ BeginTick
    \/ EndTick
    \/ Exit

SpecSteps == InitSteps /\ [][NextSteps]_vars

\* ---- Options.publicIp on its own ----

\* what net.InterfaceAddrs can return: an error, or a list of addresses
Enumerations ==
    { [err |-> TRUE, addrs |-> <<>>] }
    \cup { [err |-> FALSE, addrs |-> l] : l \in InterfaceLists }

\* an Options with a prefix and the interfaces of the host, before the scan
InitPublicIp ==
    /\ Init
    /\ variant = "scan"
    /\ opts.refreshInterval = 1 /\ opts.forcedRefreshInterval = 0
    /\ opts.dynv6Host # "" /\ opts.dynv6Token # ""
    /\ opts.duckHost = "" /\ opts.duckToken = ""

\* net.InterfaceAddrs answers (app.go:154)
Enumerate ==
    /\ tick.outcome = "none"
    /\ ifaces = NoInterfaces
    /\ ifaces' \in Enumerations \ {NoInterfaces}
    /\ UNCHANGED <<variant, opts, lastAddr, lastRefresh, clock, pc, startErr, nextFire,
                   tickPending, cancelled, tick, calls, sent, running, exitCode>>

\* one call of Options.publicIp; its three results are kept in tick
Discover ==
    /\ tick.outcome = "none"
    /\ LET r == publicIp(ifaces, opts.ipPrefix)
       IN  tick' = [NoTick EXCEPT !.outcome = "scanned", !.err = r.err,
                                  !.addr = r.addr, !.ip = r.ip]
    /\ UNCHANGED <<variant, opts, lastAddr, lastRefresh, clock, pc, startErr, nextFire,
                   tickPending, cancelled, calls, sent, running, ifaces, exitCode>>

NextPublicIp ==
    \/ Enumerate
    \/ Discover

SpecPublicIp == InitPublicIp /\ [][NextPublicIp]_vars

TypeOK ==
    /\ variant \in {"scan", "lookup"}
    /\ clock \in 0 .. MaxTime
    /\ lastRefresh \in 0 .. MaxTime
    /\ pc \in {"start", "initial", "select", "intick", "returned", "panicked"}
    /\ running \in 0 .. 1
    /\ exitCode \in {NotExited, 0, 2}
    /\ startErr \in {"", "config", "ctx"}
    /\ tickPending \in BOOLEAN
    /\ cancelled \in BOOLEAN
    /\ tick.outcome \in {"none", "error", "unchanged", "publish", "panic"}

\* ------------------------------------------------------------------ claims
\* a step that runs the tick handler once: the initial refresh, or the loop
\* taking the tick out of the ticker's channel
TickStep ==
    \/ pc = "initial" /\ pc' # "initial"
    \/ pc = "select" /\ tickPending /\ ~tickPending'

\* the step changes the refresh state
StateChanged == lastAddr' # lastAddr \/ lastRefresh' # lastRefresh

\* the providers the running variant calls in a publish
Configured(provider) ==
    IF variant = "lookup" THEN provider = "dynv6"
    ELSE \/ provider = "dynv6" /\ hasDynv6(opts)
         \/ provider = "duckdns" /\ hasDuckDns(opts)

\* provider was called in the requests reqs
Invoked(provider, reqs) == \E i \in 1 .. Len(reqs) : reqs[i].provider = provider

\* every request of reqs that carries an address carries the one of tick t
CarryAddress(reqs, t) ==
    \A i \in 1 .. Len(reqs) : ~reqs[i].clear => reqs[i].ipv6 \in {t.addr, t.ip}

Succeeded(req) == req.result = "ok"

\* C1: a tick whose discovery fails leaves lastAddr and lastRefresh as they
\* were and issues no provider request, in both variants.
C1_FailedDiscoveryIsNoOp ==
    [][ (TickStep /\ tick'.err # "")
        => (lastAddr' = lastAddr /\ lastRefresh' = lastRefresh /\ calls' = <<>>) ]_vars

\* C1 witness: a discovery failure after an address had been published
C1_Witness == tick.outcome = "error" /\ lastAddr # InitialAddr(variant)

\* C2: a tick that discovers the address lastAddr already holds, less than
\* the forced interval after lastRefresh, issues no provider request and
\* leaves lastAddr and lastRefresh unchanged.
C2_UnchangedIsNoOp ==
    [][ (/\ TickStep
         /\ tick'.err = ""
         /\ tick'.addr = lastAddr
         /\ tick'.now - lastRefresh < opts.forcedRefreshInterval)
        => (calls' = <<>> /\ lastAddr' = lastAddr /\ lastRefresh' = lastRefresh) ]_vars

\* C2 witness: a tick found the address unchanged and the interval not over
C2_Witness ==
    /\ tick.outcome = "unchanged"
    /\ tick.addr = lastAddr
    /\ tick.now - lastRefresh < opts.forcedRefreshInterval

\* C3 (as claimed): a tick that discovers an address other than lastAddr
\* calls every configured provider with the new address, however little
\* time has passed, and restarts the forced interval from this tick.
C3_ChangedAlwaysPublishes ==
    [][ (TickStep /\ tick'.err = "" /\ tick'.addr # lastAddr)
        => (/\ \A p \in {"dynv6", "duckdns"} : Configured(p) => Invoked(p, calls')
            /\ CarryAddress(calls', tick')
            /\ lastRefresh' >= tick'.now) ]_vars

\* C4 (as claimed): a tick whose discovery succeeds at least the forced
\* interval after lastRefresh publishes, also when the address is unchanged
\* and also exactly on the threshold, in both variants.
C4_ForcedAtThreshold ==
    [][ (/\ TickStep
         /\ tick'.err = ""
         /\ tick'.now - lastRefresh >= opts.forcedRefreshInterval)
        => (tick'.outcome = "publish" /\ calls' # <<>>) ]_vars

\* C5 (as claimed): from the initial refresh state the first tick whose
\* discovery succeeds publishes the discovered address, whatever the forced
\* refresh interval, in both variants.
C5_FirstTickPublishes ==
    [][ (/\ TickStep
         /\ tick'.err = ""
         /\ tick.outcome \in {"none", "error"}
         /\ lastAddr = InitialAddr(variant))
        => (/\ tick'.outcome = "publish"
            /\ calls' # <<>>
            /\ CarryAddress(calls', tick')) ]_vars

\* C6 (as claimed): after a tick that publishes, lastAddr is the address the
\* tick discovered and lastRefresh is the very clock reading the tick used
\* to compute forced, whatever became of the provider requests.
C6_StampIsDecisionTime ==
    [][ (TickStep /\ tick'.outcome = "publish")
        => (lastAddr' = tick'.addr /\ lastRefresh' = tick'.now) ]_vars

\* C6 (amended): after a tick that publishes, lastAddr is the address the
\* tick discovered and lastRefresh is a clock reading the tick took at or
\* after the one it used to compute forced, whatever became of the requests.
C6_StampIsLaterReading ==
    [][ (TickStep /\ tick'.outcome = "publish")
        => (/\ lastAddr' = tick'.addr
            /\ lastRefresh' >= tick'.now
            /\ lastRefresh' <= clock') ]_vars

\* C6 witness: every request of a publish failed, and the stamp is later
\* than the reading forced was computed from
C6_Witness ==
    /\ tick.outcome = "publish"
    /\ calls # <<>>
    /\ \A i \in 1 .. Len(calls) : ~Succeeded(calls[i])
    /\ lastAddr = tick.addr
    /\ lastRefresh > tick.now

\* some request that carries the address went through
PublishSucceeded(reqs) == \E i \in 1 .. Len(reqs) : ~reqs[i].clear /\ Succeeded(reqs[i])

\* C7 (as claimed): lastAddr and lastRefresh change only in a tick of the
\* scheduler in which a provider publish succeeded.
C7_ChangeOnlyAfterSuccess ==
    [][ StateChanged
        => (TickStep /\ tick'.outcome = "publish" /\ PublishSucceeded(calls')) ]_vars

\* C7 (amended): lastAddr and lastRefresh change only in a tick of the
\* scheduler in which a publish was triggered, that is in which the
\* providers were called, whether or not any of their requests succeeded.
C7_ChangeOnlyInPublish ==
    [][ StateChanged => (TickStep /\ tick'.outcome = "publish" /\ calls' # <<>>) ]_vars

\* C7 witness: the state took a new address in a publish none of whose
\* requests succeeded
C7_Witness ==
    /\ tick.outcome = "publish"
    /\ ~PublishSucceeded(calls)
    /\ lastAddr = tick.addr
    /\ lastAddr # InitialAddr(variant)

\* C8: lastRefresh never decreases, whatever the ticks do.
C8_LastRefreshMonotonic == [][ lastRefresh' >= lastRefresh ]_vars

\* C8 witness: lastRefresh has advanced past its first stamp in a publish
C8_Witness == tick.outcome = "publish" /\ lastRefresh > 1 /\ lastRefresh > tick.now

\* C9 (as claimed): lastAddr is the address most recently sent to a
\* provider: still empty while none was sent, and never an address that
\* was discovered but went out in no request.
C9_LastAddrIsLastSent == lastAddr = sent

\* C10: a tick that publishes calls every configured provider, dynv6 before
\* DuckDNS, with the address discovered in this tick; a failed request of
\* one provider leaves the call of the other in place.
C10_EveryProviderInvoked ==
    [][ (TickStep /\ tick'.outcome = "publish")
        => (/\ \A p \in {"dynv6", "duckdns"} : Configured(p) <=> Invoked(p, calls')
            /\ CarryAddress(calls', tick')
            /\ \A i \in 1 .. Len(calls') :
                  calls'[i].provider = "dynv6" => calls'[i].ipv6 = tick'.addr
            /\ \A i, j \in 1 .. Len(calls') :
                  (calls'[i].provider = "dynv6" /\ calls'[j].provider = "duckdns") => i < j) ]_vars

\* C10 witness: the dynv6 request failed and DuckDNS was called all the
\* same, its update carrying the address of the tick
C10_Witness ==
    /\ tick.outcome = "publish"
    /\ Len(calls) = 3
    /\ calls[1].provider = "dynv6" /\ ~Succeeded(calls[1])
    /\ calls[3].provider = "duckdns" /\ calls[3].ipv6 = tick.ip

\* the loop of start is running
InLoop == pc \in {"initial", "select"}

\* C11 (as claimed): no tick ends the scheduling loop: once entered, the
\* loop is left only by returning the context's error after cancellation,
\* and a tick with a failed discovery or a failed request leaves the loop
\* ready for the next tick.
C11_LoopEndsOnlyOnCancel ==
    [][ /\ (InLoop /\ ~InLoop') => (cancelled /\ pc' = "returned" /\ startErr' = "ctx")
        /\ TickStep => pc' = "select" ]_vars

\* host and token are both given
BothSet(host, token) == host # "" /\ token # ""

\* C12: in app.go start goes on only if DuckDNS or dynv6 has both its host
\* and its token; otherwise it returns the configuration error with no
\* ticker created, no discovery run and no provider called; and no tick ever
\* calls a provider that lacks its host or its token.
C12_StartNeedsProvider ==
    variant = "scan" =>
        /\ (pc # "start" /\ ~BothSet(opts.duckHost, opts.duckToken)
                         /\ ~BothSet(opts.dynv6Host, opts.dynv6Token))
           => (/\ pc = "returned" /\ startErr = "config"
               /\ nextFire = 0 /\ ~tickPending
               /\ tick = NoTick /\ calls = <<>>)
        /\ startErr = "config"
           => (/\ ~BothSet(opts.duckHost, opts.duckToken)
               /\ ~BothSet(opts.dynv6Host, opts.dynv6Token))
        /\ \A i \in 1 .. Len(calls) :
              /\ calls[i].provider = "dynv6" => BothSet(opts.dynv6Host, opts.dynv6Token)
              /\ calls[i].provider = "duckdns" => BothSet(opts.duckHost, opts.duckToken)

\* C12 witness: a publish that left out dynv6, which has a host but no token
C12_Witness ==
    /\ variant = "scan"
    /\ tick.outcome = "publish"
    /\ opts.dynv6Host # "" /\ opts.dynv6Token = ""
    /\ calls # <<>>
    /\ ~Invoked("dynv6", calls)

\* C13: when the process has exited after start returned an error (the
\* configuration was rejected, or the loop returned the context's error), its
\* exit status is not 0.
C13_ErrorExitsNonZero ==
    (exitCode # NotExited /\ startErr \in {"config", "ctx"}) => exitCode # 0

\* C14 (as claimed): in both variants the tick handler has run once by the
\* time the loop first waits for the ticker.
C14_HandlerRunsAtStartup == pc = "select" => tick.outcome # "none"

\* C15 (as claimed): once the context is cancelled the loop begins no
\* refresh any more, also when a tick is pending at the same time.
C15_NoRefreshAfterCancel == [][ (cancelled /\ pc = "select") => ~TickStep ]_vars

\* C16 (as claimed): the time between two consecutive publishes, and between
\* startup and the first publish, never exceeds the forced refresh interval.
C16_PublishWithinInterval ==
    [][ (TickStep /\ tick'.outcome = "publish")
        => lastRefresh' - lastRefresh <= opts.forcedRefreshInterval ]_vars

\* C16 (amended): a tick whose discovery succeeds more than the forced
\* refresh interval after lastRefresh publishes, whether or not the address
\* changed; the interval bounds the staleness a tick tolerates, not the time
\* between publishes.
C16_StaleTickPublishes ==
    [][ (/\ TickStep
         /\ tick'.err = ""
         /\ tick'.now - lastRefresh > opts.forcedRefreshInterval)
        => (tick'.outcome = "publish" /\ calls' # <<>>) ]_vars

\* C16 witness: an unchanged address was published because the interval
\* was over
C16_Witness ==
    /\ tick.outcome = "publish"
    /\ ~tick.changed
    /\ opts.forcedRefreshInterval > 0
    /\ calls # <<>>

\* the requests of reqs that went to provider
RequestsTo(provider, reqs) == { i \in 1 .. Len(reqs) : reqs[i].provider = provider }

\* C17: ticks never overlap. At most one call of the handler is in
\* progress, a call begins only when none is, lastAddr and lastRefresh
\* change only in the step in which that one call finishes, and a timer
\* firing while a call is in progress leaves the loop inside that call and
\* only marks the tick as waiting.
C17_TicksNeverOverlap ==
    [][ /\ running <= 1 /\ running' <= 1
        /\ running' > running => (running = 0 /\ pc' = "intick")
        /\ StateChanged => (running = 1 /\ running' = 0)
        /\ (running = 1 /\ ~tickPending /\ tickPending') =>
               (running' = 1 /\ pc' = "intick" /\ ~StateChanged) ]_vars

\* C17 witness: the timer has fired while a call of the handler is in
\* progress after an earlier one has published
C17_Witness ==
    /\ pc = "intick" /\ running = 1
    /\ tickPending
    /\ tick.outcome = "publish"

\* C18 (as claimed): a publish issues exactly one request to every
\* configured provider, and that request carries the address.
C18_OneRequestPerProvider ==
    [][ (TickStep /\ tick'.outcome = "publish")
        => \A p \in {"dynv6", "duckdns"} :
              Configured(p) =>
                 /\ Cardinality(RequestsTo(p, calls')) = 1
                 /\ \A i \in RequestsTo(p, calls') :
                       ~calls'[i].clear /\ calls'[i].ipv6 \in {tick'.addr, tick'.ip} ]_vars

\* C18 (amended): a publish issues exactly one request to dynv6, carrying
\* the address, the host and the token; to DuckDNS it issues a clear request
\* with host and token but no address and, only when that request went
\* through, one update request with the address, the host and the token; no
\* request is repeated.
C18_RequestsPerProvider ==
    [][ (TickStep /\ tick'.outcome = "publish")
        => /\ Configured("dynv6") =>
                 /\ Cardinality(RequestsTo("dynv6", calls')) = 1
                 /\ \A i \in RequestsTo("dynv6", calls') :
                       /\ ~calls'[i].clear
                       /\ calls'[i].ipv6 = tick'.addr
                       /\ calls'[i].host = opts.dynv6Host
                       /\ calls'[i].token = opts.dynv6Token
           /\ Configured("duckdns") =>
                 LET first == Len(calls') - Cardinality(RequestsTo("duckdns", calls')) + 1
                 IN  /\ RequestsTo("duckdns", calls') = first .. Len(calls')
                     /\ calls'[first].clear /\ calls'[first].ipv6 = <<>>
                     /\ Len(calls') = (IF calls'[first].result = "geterr" THEN first ELSE first + 1)
                     /\ Len(calls') > first =>
                           (~calls'[first + 1].clear /\ calls'[first + 1].ipv6 = tick'.ip)
                     /\ \A i \in first .. Len(calls') :
                           calls'[i].host = opts.duckHost /\ calls'[i].token = opts.duckToken ]_vars

\* C18 witness: a publish to both providers in which every request went
\* through
C18_Witness ==
    /\ tick.outcome = "publish"
    /\ Len(calls) = 3
    /\ \A i \in 1 .. 3 : Succeeded(calls[i])
    /\ calls[2].clear /\ ~calls[3].clear

\* the address is in fe80::/10
IsLinkLocal(ip) == ip[1] = "fe80:"

\* the three conditions of the claim on an enumerated address
Usable(a, ipPrefix) ==
    /\ a.resolvable
    /\ ~IsPrivate(a.ip) /\ ~IsLinkLocal(a.ip)
    /\ HasPrefix(a.ip, ipPrefix)

\* the positions of the usable addresses in the enumeration
UsableAt(addrs, ipPrefix) == { i \in 1 .. Len(addrs) : Usable(addrs[i], ipPrefix) }

\* C19 (as claimed): publicIp returns the first enumerated address that is
\* resolvable, neither private nor link-local, and starts with the prefix;
\* it fails with "no public address" exactly when there is none, and with
\* the enumeration error exactly when net.InterfaceAddrs failed.
C19_FirstUsableAddress ==
    tick.outcome = "scanned" =>
        IF ifaces.err
        THEN tick.err = "enumeration"
        ELSE LET at == UsableAt(ifaces.addrs, opts.ipPrefix)
             IN  IF at = {}
                 THEN tick.err = "nopublic"
                 ELSE LET first == CHOOSE i \in at : \A j \in at : i <= j
                      IN  /\ tick.err = ""
                          /\ tick.addr = AddrString(ifaces.addrs[first])
                          /\ tick.ip = ifaces.addrs[first].ip

\* C20: in app.go lastAddr is nil only while lastRefresh is still the epoch,
\* so a tick that finds lastAddr nil at least the forced interval after the
\* epoch has force true and skips the comparison: the nil lastAddr is
\* dereferenced only by a tick less than the forced interval after the epoch.
C20_NilOnlyAtEpoch ==
    variant = "scan" =>
        /\ lastAddr = NilAddr => lastRefresh = 0
        /\ tick.outcome = "panic" => tick.now < opts.forcedRefreshInterval
        /\ pc = "panicked" /\ tick.outcome # "none" => tick.outcome = "panic"

\* C20 witness: discovery failed, lastAddr is still nil, the forced interval
\* since the epoch is over and the next tick is waiting
C20_Witness ==
    /\ variant = "scan"
    /\ tick.outcome = "error"
    /\ lastAddr = NilAddr
    /\ pc = "select" /\ tickPending
    /\ opts.forcedRefreshInterval > 0
    /\ clock >= opts.forcedRefreshInterval

====
